---- MODULE Spec2Model ----
(***************************************************************************)
(* A model of package infra (src/infra/infra.go): the Banai session object *)
(* with its in-memory secret map, the stash operations Save/Load and the   *)
(* session directory tree under ./.banai.                                  *)
(*                                                                         *)
(* The disk is modelled as a set of directories and a map from file paths  *)
(* to [data, mode].  Paths are sequences of path components relative to    *)
(* the working directory of the process, so that filepath.Join and         *)
(* filepath.Abs are computed (with their lexical cleaning of "..") and not *)
(* assumed.                                                                *)
(***************************************************************************)
EXTENDS Integers, Sequences, FiniteSets, TLC

VARIABLES
    secrets,      \* Banai.secrets: map secretID -> secretStruct
    files,        \* disk: map path -> [data, mode] of the regular files
    dirs,         \* disk: set of paths that are directories
    isRoot,       \* the process may override permission bits (uid 0)
    umask,        \* the file mode creation mask of the process
    used,         \* uuids generated so far by uuid.NewString
    phase,        \* lifecycle of the session: "Ready" or "Closed"
    calls,        \* number of calls the host has made on the package
    ret,          \* what the last call returned
    lastAdd,      \* history: secretID -> arguments of the last Add* call
    materialized, \* history: ids on which GetSecret took the "ssh" case
    issued,       \* history: handle -> bytes of the source when Save returned it
    persisted,    \* history: paths written by Save and GetSecret in this session
    pcs           \* goroutine -> the call on b.secrets it is inside of

vars == <<secrets, files, dirs, isRoot, umask, used, phase, calls, ret,
          lastAdd, materialized, issued, persisted, pcs>>

(***************************************************************************)
(* Bounds and input domains                                                *)
(***************************************************************************)
MaxData == 2
MaxCalls == 5

Data == 1..MaxData
Users == {"u1"}
Passphrases == {"pp1"}
Passwords == {"pw1"}
UUIDs == {"h1", "h2"}
SrcFiles == {<<"f1">>}
\* caller-supplied secret identifiers: a plain file name, and one that
\* climbs out of the secret folder
SecretIDs == {<<"k1">>, <<"..", "stash", "h1">>}
\* caller-supplied stash ids: the uuids, and one that climbs out of the
\* stash folder
StashIDs == {<<u>> : u \in UUIDs} \cup {<<"..", "..", "f1">>}
\* a plain file name, and an identifier that climbs from the secret folder
\* into the session root
RootEscapeIDs == {<<"k1">>, <<"..", "k2">>}
Umasks == {0, 18}
Threads == {"t1", "t2"}

(***************************************************************************)
(* Paths                                                                   *)
(***************************************************************************)
RECURSIVE CleanFrom(_, _)
CleanFrom(acc, rest) ==
    IF rest = <<>> THEN acc
    ELSE LET c == Head(rest) IN
         IF c = "." \/ c = "" THEN CleanFrom(acc, Tail(rest))
         ELSE IF c = ".." /\ acc # <<>> /\ acc[Len(acc)] # ".."
              THEN CleanFrom(SubSeq(acc, 1, Len(acc) - 1), Tail(rest))
              ELSE CleanFrom(Append(acc, c), Tail(rest))

Clean(p) == CleanFrom(<<>>, p)
Join(a, b) == Clean(a \o b)
Abs(p) == Clean(p)
Dir(p) == SubSeq(p, 1, Len(p) - 1)
IsPrefix(a, p) == Len(a) <= Len(p) /\ SubSeq(p, 1, Len(a)) = a

TmpDir == Abs(<<".", ".banai">>)
stashFolder == Join(TmpDir, <<"stash">>)
secretFolder == Join(TmpDir, <<"sec">>)

(***************************************************************************)
(* File modes                                                              *)
(***************************************************************************)
KeyFilePerm == 600
\* rw-r--r--, the mode of the user's own files
UserFilePerm == 256 + 128 + 32 + 4

RECURSIVE AndNot(_, _, _)
AndNot(m, mask, n) ==
    IF n = 0 THEN 0
    ELSE (IF m % 2 = 1 /\ mask % 2 = 0 THEN 1 ELSE 0)
         + 2 * AndNot(m \div 2, mask \div 2, n - 1)

Perm(m) == m % 512
CreateMode(perm, mask) == AndNot(Perm(perm), mask, 9)
Bit(m, k) == (m \div (2 ^ k)) % 2
OwnerRead(m) == Bit(m, 8) = 1
OwnerWrite(m) == Bit(m, 7) = 1
GroupOtherBits(m) == m % 64

CanRead(f) == isRoot \/ OwnerRead(f.mode)
CanWrite(f) == isRoot \/ OwnerWrite(f.mode)

(***************************************************************************)
(* Filesystem primitives used by the package.  Each returns the resulting  *)
(* disk together with the error the call reports.                          *)
(***************************************************************************)
NoError == "nil"
ErrNotExist == "ErrNotExist"
ErrPermission == "ErrPermission"
ErrIsDir == "ErrIsDir"
ErrSecretNotFound == "Secret not found"

EmptyMap == [x \in {} |-> 0]

\* Go map assignment m[key] = v: the entry under key is replaced.
Put_KeepsExisting(m, key, v) == m @@ (key :> v)
Put(m, key, v) == (key :> v) @@ m
Without(f, path) == [p \in {q \in DOMAIN f : ~IsPrefix(path, q)} |-> f[p]]

\* os.RemoveAll(path): removes path and everything below it; no error when
\* path does not exist.
RemoveAll(fs, ds, path) ==
    [files |-> Without(fs, path),
     dirs  |-> {d \in ds : ~IsPrefix(path, d)}]

\* os.MkdirAll(path, perm): creates path and every missing parent; fails
\* when a component of path is a regular file.
MkdirAll(fs, ds, path) ==
    LET prefixes == {SubSeq(path, 1, n) : n \in 0..Len(path)} IN
    IF \E q \in prefixes : q \in DOMAIN fs THEN ds ELSE ds \cup prefixes

\* os.Stat(path)
Stat(fs, ds, path) ==
    IF path \in DOMAIN fs \/ path \in ds THEN NoError ELSE ErrNotExist

\* ioutil.ReadFile(path)
ReadFile(fs, ds, path) ==
    IF path \in ds THEN [err |-> ErrIsDir, data |-> 0]
    ELSE IF path \notin DOMAIN fs THEN [err |-> ErrNotExist, data |-> 0]
    ELSE IF ~CanRead(fs[path]) THEN [err |-> ErrPermission, data |-> 0]
    ELSE [err |-> NoError, data |-> fs[path].data]

\* ioutil.WriteFile(name, data, perm): open(O_WRONLY|O_CREATE|O_TRUNC, perm),
\* write, close.  perm is used only when the file is created, and the umask
\* is taken off it; an existing file keeps its mode and must be writable.
WriteFile(fs, ds, name, data, perm) ==
    IF name \in ds THEN [err |-> ErrIsDir, files |-> fs]
    ELSE IF Dir(name) \notin ds THEN [err |-> ErrNotExist, files |-> fs]
    ELSE IF name \in DOMAIN fs
         THEN IF CanWrite(fs[name])
              THEN [err |-> NoError,
                    files |-> [fs EXCEPT ![name].data = data]]
              ELSE [err |-> ErrPermission, files |-> fs]
         ELSE [err |-> NoError,
               files |-> (name :> [data |-> data,
                                   mode |-> CreateMode(perm, umask)]) @@ fs]

\* fsutils.CopyfsItem(src, dst): copies the file or the directory tree at src
\* to dst.  A relative dst is resolved by the operating system against the
\* working directory.
CopyfsItem(fs, ds, src, dst) ==
    LET to == Abs(dst) IN
    IF src \in ds
    THEN IF Dir(to) \notin ds
         THEN [err |-> ErrNotExist, files |-> fs, dirs |-> ds]
         ELSE LET below == {q \in DOMAIN fs : IsPrefix(src, q)}
                  move(q) == to \o SubSeq(q, Len(src) + 1, Len(q))
              IN [err |-> NoError,
                  files |-> [p \in DOMAIN fs \cup {move(q) : q \in below} |->
                               IF \E q \in below : move(q) = p
                               THEN fs[CHOOSE q \in below : move(q) = p]
                               ELSE fs[p]],
                  dirs |-> ds \cup {move(d) : d \in {e \in ds : IsPrefix(src, e)}}]
    ELSE LET r == ReadFile(fs, ds, src) IN
         IF r.err # NoError THEN [err |-> r.err, files |-> fs, dirs |-> ds]
         ELSE LET w == WriteFile(fs, ds, to, r.data, fs[src].mode) IN
              [err |-> w.err, files |-> w.files, dirs |-> ds]

(***************************************************************************)
(* Secrets and the views GetSecret returns                                 *)
(***************************************************************************)
secretText_DropsValue(value) == [type |-> "text", Text |-> 0]
secretText(value) == [type |-> "text", Text |-> value]
secretSSHWithPrivate(user, privateKey, passphrase) ==
    [type |-> "ssh", User |-> user, PrivateKey |-> privateKey,
     Passphrase |-> passphrase]
secretUserPassword(user, password) ==
    [type |-> "userpass", User |-> user, Password |-> password]

TextSecret(text) == [type |-> "text", Text |-> text]
SSHWithPrivate(user, fn, passfrase) ==
    [type |-> "ssh", User |-> user, PrivatekeyFile |-> fn,
     Passfrase |-> passfrase]
UserPassword_Swapped(user, password) ==
    [type |-> "userpass", User |-> password, Password |-> user]
UserPassword(user, password) ==
    [type |-> "userpass", User |-> user, Password |-> password]

Idle == [op |-> "idle", secretID |-> <<>>, data |-> 0]
Dead == [op |-> "dead", secretID |-> <<>>, data |-> 0]

NoVal == [type |-> "none"]
Handle(stashID) == [type |-> "handle", id |-> stashID]
Bytes(d) == [type |-> "bytes", data |-> d]
Result(op, arg, err, val) == [op |-> op, arg |-> arg, err |-> err, val |-> val]

(***************************************************************************)
(* The state after the first NewBanai() of a process started in a working  *)
(* directory that holds no .banai tree.                                    *)
(***************************************************************************)
Init ==
    /\ secrets = EmptyMap
    /\ isRoot \in BOOLEAN
    /\ umask \in Umasks
    /\ dirs = {<<>>, TmpDir, stashFolder, secretFolder}
    /\ \E present \in SUBSET SrcFiles :
         files = [p \in present |->
                    [data |-> 1, mode |-> CreateMode(UserFilePerm, umask)]]
    /\ used = {}
    /\ phase = "Ready"
    /\ calls = 0
    /\ ret = Result("NewBanai", <<>>, NoError, NoVal)
    /\ lastAdd = EmptyMap
    /\ materialized = {}
    /\ issued = EmptyMap
    /\ persisted = {}
    /\ pcs = [t \in Threads |-> Idle]

(***************************************************************************)
(* Operations                                                              *)
(***************************************************************************)
NewBanai ==
    /\ secrets' = EmptyMap
    /\ LET r1 == RemoveAll(files, dirs, stashFolder)
           m1 == MkdirAll(r1.files, r1.dirs, stashFolder)
           r2 == RemoveAll(r1.files, m1, secretFolder)
           m2 == MkdirAll(r2.files, r2.dirs, secretFolder)
       IN /\ files' = r2.files
          /\ dirs' = m2
    /\ phase' = "Ready"
    /\ ret' = Result("NewBanai", <<>>, NoError, NoVal)
    /\ lastAdd' = EmptyMap
    /\ materialized' = {}
    /\ issued' = EmptyMap
    /\ persisted' = {}
    /\ UNCHANGED <<isRoot, umask, used>>

Close ==
    /\ LET r == RemoveAll(files, dirs, TmpDir)
       IN /\ files' = r.files
          /\ dirs' = r.dirs
    /\ phase' = "Closed"
    /\ ret' = Result("Close", <<>>, NoError, NoVal)
    /\ UNCHANGED <<secrets, isRoot, umask, used, lastAdd,
                   materialized, issued, persisted>>

\* uuid.NewString(): the values it can return, given the ones it returned
NewString_Reuses(u) == UUIDs
NewString(u) == UUIDs \ u

\* what Save returns, given the error of the copy
SaveResult_KeepsHandle(fileName, stashID, e) ==
    Result("Save", fileName, e, Handle(stashID))
SaveResult(fileName, stashID, e) ==
    IF e # NoError THEN Result("Save", fileName, e, NoVal)
    ELSE Result("Save", fileName, NoError, Handle(stashID))

Save(fileName) ==
    \E stashID \in NewString(used) :
        LET abs == Abs(fileName)
            c == CopyfsItem(files, dirs, abs, <<stashID>>)
        IN /\ used' = used \cup {stashID}
           /\ files' = c.files
           /\ dirs' = c.dirs
           /\ ret' = SaveResult(fileName, stashID, c.err)
           /\ IF c.err # NoError
              THEN UNCHANGED <<issued, persisted>>
              ELSE /\ issued' = (stashID :> files[abs].data) @@ issued
                   /\ persisted' = persisted \cup {Abs(<<stashID>>)}
           /\ UNCHANGED <<secrets, isRoot, umask, phase, lastAdd,
                          materialized>>

\* what Load(stashID) returns on the disk fs, ds
LoadResult(fs, ds, stashID) ==
    LET path == Join(stashFolder, stashID)
        e == Stat(fs, ds, path)
        f == ReadFile(fs, ds, path)
    IN IF e # NoError THEN Result("Load", stashID, e, NoVal)
       ELSE IF f.err # NoError
            THEN Result("Load", stashID, f.err, NoVal)
            ELSE Result("Load", stashID, NoError, Bytes(f.data))

Load(stashID) ==
    /\ ret' = LoadResult(files, dirs, stashID)
    /\ UNCHANGED <<secrets, files, dirs, isRoot, umask, used, phase,
                   lastAdd, materialized, issued, persisted>>

AddStringSecret(secretID, value) ==
    /\ secrets' = Put(secrets, secretID, secretText(value))
    /\ lastAdd' = (secretID :> [type |-> "text", Text |-> value]) @@ lastAdd
    /\ ret' = Result("AddStringSecret", <<>>, NoError, NoVal)
    /\ UNCHANGED <<files, dirs, isRoot, umask, used, phase, materialized, issued, persisted>>

\* a registration that writes the key file at once
AddSSHWithPrivate_Eager(secretID, user, privateKey, passphrase) ==
    /\ secrets' = Put(secrets, secretID,
                    secretSSHWithPrivate(user, privateKey, passphrase))
    /\ lastAdd' = (secretID :> [type |-> "ssh", User |-> user,
                                PrivateKey |-> privateKey,
                                Passphrase |-> passphrase]) @@ lastAdd
    /\ files' = WriteFile(files, dirs, Join(secretFolder, secretID),
                          privateKey, KeyFilePerm).files
    /\ ret' = Result("AddSSHWithPrivate", <<>>, NoError, NoVal)
    /\ UNCHANGED <<dirs, isRoot, umask, used, phase, materialized, issued,
                   persisted>>

AddSSHWithPrivate(secretID, user, privateKey, passphrase) ==
    /\ secrets' = Put(secrets, secretID,
                    secretSSHWithPrivate(user, privateKey, passphrase))
    /\ lastAdd' = (secretID :> [type |-> "ssh", User |-> user,
                                PrivateKey |-> privateKey,
                                Passphrase |-> passphrase]) @@ lastAdd
    /\ ret' = Result("AddSSHWithPrivate", <<>>, NoError, NoVal)
    /\ UNCHANGED <<files, dirs, isRoot, umask, used, phase, materialized, issued, persisted>>

\* a registration that replaces the whole map
AddUserPassword_Clears(secretID, user, password) ==
    /\ secrets' = (secretID :> secretUserPassword(user, password))
    /\ lastAdd' = (secretID :> [type |-> "userpass", User |-> user,
                                Password |-> password]) @@ lastAdd
    /\ ret' = Result("AddUserPassword", <<>>, NoError, NoVal)
    /\ UNCHANGED <<files, dirs, isRoot, umask, used, phase, materialized, issued, persisted>>

AddUserPassword(secretID, user, password) ==
    /\ secrets' = Put(secrets, secretID, secretUserPassword(user, password))
    /\ lastAdd' = (secretID :> [type |-> "userpass", User |-> user,
                                Password |-> password]) @@ lastAdd
    /\ ret' = Result("AddUserPassword", <<>>, NoError, NoVal)
    /\ UNCHANGED <<files, dirs, isRoot, umask, used, phase, materialized, issued, persisted>>

\* what GetSecret returns when the map has no entry under secretID
NotFound_NilError(secretID) == Result("GetSecret", secretID, NoError, NoVal)
NotFound(secretID) == Result("GetSecret", secretID, ErrSecretNotFound, NoVal)

\* what GetSecret returns when the key file cannot be written
MaterializeFailed_LeaksError(secretID, err) ==
    Result("GetSecret", secretID, err, NoVal)
MaterializeFailed(secretID, err) ==
    Result("GetSecret", secretID, ErrSecretNotFound, NoVal)

GetSecret(secretID) ==
    IF secretID \notin DOMAIN secrets
    THEN /\ ret' = NotFound(secretID)
         /\ UNCHANGED <<secrets, files, dirs, isRoot, umask, used, phase,
                        lastAdd, materialized, issued, persisted>>
    ELSE LET v == secrets[secretID] IN
         CASE v.type = "text" ->
                /\ ret' = Result("GetSecret", secretID, NoError,
                                 TextSecret(v.Text))
                /\ UNCHANGED <<secrets, files, dirs, isRoot, umask, used,
                               phase, lastAdd, materialized, issued,
                               persisted>>
           [] v.type = "ssh" ->
                LET fn == Join(secretFolder, secretID)
                    w == WriteFile(files, dirs, fn, v.PrivateKey, KeyFilePerm)
                IN /\ files' = w.files
                   /\ materialized' = materialized \cup {secretID}
                   /\ IF w.err # NoError
                      THEN /\ ret' = MaterializeFailed(secretID, w.err)
                           /\ UNCHANGED persisted
                      ELSE /\ ret' = Result("GetSecret", secretID, NoError,
                                            SSHWithPrivate(v.User, fn,
                                                           v.Passphrase))
                           /\ persisted' = persisted \cup {fn}
                   /\ UNCHANGED <<secrets, dirs, isRoot, umask, used, phase,
                                  lastAdd, issued>>
           [] v.type = "userpass" ->
                /\ ret' = Result("GetSecret", secretID, NoError,
                                 UserPassword(v.User, v.Password))
                /\ UNCHANGED <<secrets, files, dirs, isRoot, umask, used,
                               phase, lastAdd, materialized, issued,
                               persisted>>

\* The environment: a file of the user in the working directory is created
\* or rewritten by something other than the session.
UserFileChange(name, d) ==
    /\ files' = IF name \in DOMAIN files
                THEN [files EXCEPT ![name].data = d]
                ELSE (name :> [data |-> d,
                               mode |-> CreateMode(UserFilePerm, umask)])
                     @@ files
    /\ ret' = Result("UserFileChange", <<>>, NoError, NoVal)
    /\ UNCHANGED <<secrets, dirs, isRoot, umask, used, phase, lastAdd, materialized, issued, persisted>>

\* The host makes at most MaxCalls calls.
Call == calls < MaxCalls /\ calls' = calls + 1 /\ UNCHANGED pcs

\* The calls of a host that draws its secret identifiers from ids.
NextOver(ids) ==
    \/ Call /\ NewBanai
    \/ Call /\ Close
    \/ Call /\ \E fileName \in SrcFiles : Save(fileName)
    \/ Call /\ \E stashID \in StashIDs : Load(stashID)
    \/ Call /\ \E secretID \in ids, value \in Data :
          AddStringSecret(secretID, value)
    \/ Call /\ \E secretID \in ids, user \in Users, privateKey \in Data,
          passphrase \in Passphrases :
          AddSSHWithPrivate(secretID, user, privateKey, passphrase)
    \/ Call /\ \E secretID \in ids, user \in Users, password \in Passwords :
          AddUserPassword(secretID, user, password)
    \/ Call /\ \E secretID \in ids : GetSecret(secretID)
    \/ Call /\ \E name \in SrcFiles, d \in Data : UserFileChange(name, d)

Next == NextOver(SecretIDs)

Spec == Init /\ [][Next]_vars

\* The same host with an identifier that names a file directly in TmpDir.
SpecRootEscape == Init /\ [][NextOver(RootEscapeIDs)]_vars

(***************************************************************************)
(* Concurrent hosts.  Banai has no lock (infra.go:20-28) and the methods   *)
(* take none, so a goroutine enters its access to b.secrets whatever the   *)
(* other goroutines are doing.                                             *)
(***************************************************************************)
MapWrites == {"AddStringSecret", "AddSSHWithPrivate", "AddUserPassword"}
MapReads == {"GetSecret"}

PendingCalls(ids) ==
    [op : MapWrites, secretID : ids, data : Data]
        \cup [op : MapReads, secretID : ids, data : {0}]

InMap(t) == pcs[t].op \in MapWrites \cup MapReads
Racing(t) ==
    /\ InMap(t)
    /\ \E u \in Threads \ {t} :
          InMap(u) /\ (pcs[t].op \in MapWrites \/ pcs[u].op \in MapWrites)

\* goroutine t starts call c: nothing makes it wait
Enter(t, c) ==
    /\ pcs[t] = Idle
    /\ calls < MaxCalls
    /\ calls' = calls + 1
    /\ pcs' = [pcs EXCEPT ![t] = c]
    /\ UNCHANGED <<secrets, files, dirs, isRoot, umask, used, phase, ret,
                   lastAdd, materialized, issued, persisted>>

Do(c) ==
    CASE c.op = "AddStringSecret" -> AddStringSecret(c.secretID, c.data)
      [] c.op = "AddSSHWithPrivate" ->
            \E user \in Users, passphrase \in Passphrases :
               AddSSHWithPrivate(c.secretID, user, c.data, passphrase)
      [] c.op = "AddUserPassword" ->
            \E user \in Users, password \in Passwords :
               AddUserPassword(c.secretID, user, password)
      [] c.op = "GetSecret" -> GetSecret(c.secretID)

\* goroutine t finishes its call
Leave(t) ==
    /\ InMap(t)
    /\ Do(pcs[t])
    /\ pcs' = [pcs EXCEPT ![t] = Idle]
    /\ UNCHANGED calls

\* A write to a Go map that overlaps another access is a data race; the
\* runtime may detect it and end the process ("concurrent map writes",
\* "concurrent map read and map write"), or the calls may go through.
Throw(t) ==
    /\ Racing(t)
    /\ pcs' = [u \in Threads |-> Dead]
    /\ UNCHANGED <<secrets, files, dirs, isRoot, umask, used, phase, calls,
                   ret, lastAdd, materialized, issued, persisted>>

NextConcurrent ==
    \/ \E t \in Threads, c \in PendingCalls(SecretIDs) : Enter(t, c)
    \/ \E t \in Threads : Leave(t)
    \/ \E t \in Threads : Throw(t)

SpecConcurrent == Init /\ [][NextConcurrent]_vars

(***************************************************************************)
(* Properties                                                              *)
(***************************************************************************)
IssuedHandle(stashID) == Len(stashID) = 1 /\ stashID[1] \in DOMAIN issued
Registered(secretID) == secretID \in DOMAIN lastAdd

\* The view of the secret registered by an Add* call with arguments a
ViewOfAdd(secretID, a) ==
    CASE a.type = "text" -> [type |-> "text", Text |-> a.Text]
      [] a.type = "ssh" -> [type |-> "ssh", User |-> a.User,
                            PrivatekeyFile |-> Join(secretFolder, secretID),
                            Passfrase |-> a.Passphrase]
      [] a.type = "userpass" -> [type |-> "userpass", User |-> a.User,
                                 Password |-> a.Password]

\* C1: in a Ready session, a Load of a handle that a successful Save of this
\* session returned succeeds and returns the bytes the source file had when
\* it was saved, whatever happened to the source since.
C1_StashRoundTrip ==
    (phase = "Ready" /\ ret.op = "Load" /\ IssuedHandle(ret.arg))
        => /\ ret.err = NoError
           /\ ret.val = Bytes(issued[ret.arg[1]])

\* C2: every GetSecret, Save and Load call made after Close fails (the claim
\* names the error SessionClosed; the formula asks only for a failure).
C2_CallsFailAfterClose ==
    (phase = "Closed" /\ ret.op \in {"GetSecret", "Save", "Load"})
        => ret.err # NoError

\* C3: when Close returns, the session root is gone and no file that a Save
\* or a GetSecret of the session wrote is left on disk.
C3_NothingSurvivesClose ==
    ret.op = "Close"
        => /\ TmpDir \notin dirs
           /\ \A p \in persisted : p \notin DOMAIN files

C5_TextRoundTrip ==
    (ret.op = "GetSecret" /\ Registered(ret.arg)
       /\ lastAdd[ret.arg].type = "text")
        => /\ ret.err = NoError
           /\ ret.val = [type |-> "text", Text |-> lastAdd[ret.arg].Text]
W5_TextRoundTrip ==
    /\ ret.op = "GetSecret"
    /\ ret.err = NoError
    /\ ret.val.type = "text"
    /\ ret.val.Text = 2
    /\ DOMAIN lastAdd = SecretIDs

\* C6: in a Ready session every GetSecret(id) on an id that holds an ssh
\* secret succeeds with the user and the passphrase that were registered,
\* and the file at the returned path holds the registered private key.
C6_RepeatedSSHGet ==
    (phase = "Ready" /\ ret.op = "GetSecret" /\ Registered(ret.arg)
       /\ lastAdd[ret.arg].type = "ssh")
        => /\ ret.err = NoError
           /\ ret.val.type = "ssh"
           /\ ret.val.User = lastAdd[ret.arg].User
           /\ ret.val.Passfrase = lastAdd[ret.arg].Passphrase
           /\ ret.val.PrivatekeyFile \in DOMAIN files
           /\ files[ret.val.PrivatekeyFile].data = lastAdd[ret.arg].PrivateKey

\* C7: the key file GetSecret returns the path of is readable and writable
\* by its owner and carries no permission bit for group or others.
C7_KeyFileOwnerOnly ==
    (ret.op = "GetSecret" /\ ret.err = NoError /\ ret.val.type = "ssh")
        => LET m == files[ret.val.PrivatekeyFile].mode IN
           /\ OwnerRead(m)
           /\ OwnerWrite(m)
           /\ GroupOtherBits(m) = 0

\* C8: lazy materialization.  A file exists in the secret folder only as the
\* key file of an id on which GetSecret ran earlier in the session while the
\* id held an ssh secret; registering an ssh secret writes nothing.
C8_LazyMaterialization ==
    \A p \in DOMAIN files :
        IsPrefix(secretFolder, p)
            => \E secretID \in materialized : p = Join(secretFolder, secretID)
W8_LazyMaterialization ==
    /\ phase = "Ready"
    /\ Registered(<<"k1">>)
    /\ lastAdd[<<"k1">>].type = "ssh"
    /\ <<"k1">> \notin materialized
    /\ Join(secretFolder, <<"k1">>) \notin DOMAIN files
    /\ \E p \in DOMAIN files : IsPrefix(TmpDir, p)

\* C9: a GetSecret(id) on an id that no Add* call of the session registered
\* fails with ErrSecretNotFound, returns no view, and changes neither the
\* secret map nor the disk.
C9_GetUnregistered ==
    [][\A secretID \in SecretIDs :
          (ret'.op = "GetSecret" /\ ret'.arg = secretID
             /\ ~Registered(secretID))
            => /\ ret'.err # NoError
               /\ ret'.err = ErrSecretNotFound
               /\ ret'.val = NoVal
               /\ UNCHANGED <<secrets, files, dirs>>]_vars
W9_GetUnregistered ==
    /\ ret.op = "GetSecret"
    /\ ret.err = ErrSecretNotFound
    /\ ~Registered(ret.arg)
    /\ DOMAIN lastAdd # {}

\* C10: a Load of a handle that no successful Save of the session returned
\* fails with the not-found error.
C10_LoadUnknownHandle ==
    (ret.op = "Load" /\ ~IssuedHandle(ret.arg)) => ret.err = ErrNotExist

\* C11: a NewBanai() made after an earlier session (closed or not) leaves
\* nothing of that session: the secret map is empty, so GetSecret finds no
\* id the earlier session registered; no entry is in the stash folder under
\* a handle the earlier session issued; and no file the earlier session
\* wrote is left below the session root.
C11_FreshSession ==
    [][ret'.op = "NewBanai"
         => /\ secrets' = EmptyMap
            /\ \A secretID \in DOMAIN lastAdd : secretID \notin DOMAIN secrets'
            /\ \A h \in DOMAIN issued :
                  Stat(files', dirs', Join(stashFolder, <<h>>)) = ErrNotExist
            /\ {stashFolder, secretFolder} \subseteq dirs'
            /\ \A p \in persisted :
                  IsPrefix(TmpDir, p) => p \notin DOMAIN files']_vars

\* C12: a GetSecret(id) on an ssh secret whose key file cannot be written
\* fails with ErrSecretNotFound, the error of an unregistered id, returns no
\* view and leaves the secret registered unchanged; a GetSecret(id) whose
\* write succeeds returns the ssh view of the registered secret.
KeyFileWrite(secretID) ==
    WriteFile(files, dirs, Join(secretFolder, secretID),
              secrets[secretID].PrivateKey, KeyFilePerm)
C12_WriteFailure ==
    [][\A secretID \in DOMAIN secrets :
          (ret'.op = "GetSecret" /\ ret'.arg = secretID
             /\ secrets[secretID].type = "ssh")
            => /\ secrets' = secrets
               /\ KeyFileWrite(secretID).err # NoError
                     => /\ ret'.err = ErrSecretNotFound
                        /\ ret' = NotFound(secretID)
                        /\ files' = files
               /\ KeyFileWrite(secretID).err = NoError
                     => /\ ret'.err = NoError
                        /\ ret'.val = ViewOfAdd(secretID, lastAdd[secretID])]_vars
W12_WriteFailure ==
    /\ phase = "Ready"
    /\ ret.op = "GetSecret"
    /\ ret.err = ErrSecretNotFound
    /\ ret.arg \in DOMAIN secrets
    /\ secrets[ret.arg] = [type |-> "ssh", User |-> "u1", PrivateKey |-> 2,
                           Passphrase |-> "pp1"]
    /\ Join(secretFolder, ret.arg) \in DOMAIN files
    /\ files[Join(secretFolder, ret.arg)].data = 1

\* C13: Save is all-or-nothing.  A Save whose copy fails returns the error
\* and no handle, and every Load returns after it what it returned before
\* it; a Save that returns a handle has made the whole copy.
C13_SaveAllOrNothing ==
    [][ret'.op = "Save"
         => /\ ret'.err # NoError
                  => /\ ret'.val = NoVal
                     /\ issued' = issued
                     /\ \A stashID \in StashIDs :
                           LoadResult(files', dirs', stashID)
                             = LoadResult(files, dirs, stashID)
            /\ ret'.err = NoError
                  => /\ ret'.val.type = "handle"
                     /\ Abs(<<ret'.val.id>>) \in DOMAIN files'
                     /\ files'[Abs(<<ret'.val.id>>)].data
                           = files[Abs(ret'.arg)].data]_vars
W13_SaveAllOrNothing ==
    /\ ret.op = "Save"
    /\ ret.err # NoError
    /\ ret.val = NoVal
    /\ \E stashID \in StashIDs :
          LoadResult(files, dirs, stashID).err = NoError

\* C14: handles are not reused within a session.  The handle a successful
\* Save returns was not issued before in the session (also for the same
\* source path), and the Save leaves the copy made for every handle issued
\* before as it was.
C14_HandlesNotReused ==
    [][(ret'.op = "Save" /\ ret'.err = NoError)
         => /\ ret'.val.id \notin DOMAIN issued
            /\ DOMAIN issued' = DOMAIN issued \cup {ret'.val.id}
            /\ \A h \in DOMAIN issued :
                  /\ issued'[h] = issued[h]
                  /\ Abs(<<h>>) \in DOMAIN files'
                  /\ files'[Abs(<<h>>)] = files[Abs(<<h>>)]]_vars
W14_HandlesNotReused ==
    /\ ret.op = "Save"
    /\ ret.err = NoError
    /\ DOMAIN issued = UUIDs
    /\ issued["h1"] # issued["h2"]
    /\ files[<<"h1">>].data # files[<<"h2">>].data

\* C15: between its Save and the Close of the session a stash entry is
\* immutable.  No Load, Save, Add* or GetSecret call changes or removes the
\* copy made for an issued handle h, and none changes the content that
\* Load(h) returns.
Content(r) == IF r.err = NoError THEN r.val ELSE NoVal
C15_StashEntryImmutable ==
    [][(phase = "Ready"
          /\ ret'.op \in {"Load", "Save", "GetSecret", "AddStringSecret",
                          "AddSSHWithPrivate", "AddUserPassword"})
         => \A h \in DOMAIN issued :
              /\ Abs(<<h>>) \in DOMAIN files'
              /\ files'[Abs(<<h>>)] = files[Abs(<<h>>)]
              /\ Content(LoadResult(files', dirs', <<h>>))
                    = Content(LoadResult(files, dirs, <<h>>))]_vars

\* C16: GetSecret(id) on a text or userpass secret is pure.  It returns the
\* view of the registered secret and changes neither the secret map nor any
\* file or directory, and a repeated call returns what the call before it
\* returned.
C16_GetIsPure ==
    [][\A secretID \in DOMAIN secrets :
          (ret'.op = "GetSecret" /\ ret'.arg = secretID
             /\ secrets[secretID].type \in {"text", "userpass"})
            => /\ ret'.err = NoError
               /\ ret'.val = ViewOfAdd(secretID, lastAdd[secretID])
               /\ UNCHANGED <<secrets, files, dirs>>
               /\ (ret.op = "GetSecret" /\ ret.arg = secretID)
                     => ret' = ret]_vars
W16_GetIsPure ==
    /\ ret.op = "GetSecret"
    /\ ret.val = [type |-> "userpass", User |-> "u1", Password |-> "pw1"]
    /\ \E p \in DOMAIN files : IsPrefix(secretFolder, p)
    /\ calls >= 4

AddOps == {"AddStringSecret", "AddSSHWithPrivate", "AddUserPassword"}

\* C17: a registration call (AddStringSecret, AddSSHWithPrivate,
\* AddUserPassword) changes the secret map under one id only: the secrets
\* under every other id stay as they were, and no file and no directory
\* (stash entries and key files included) is created, changed or removed.
C17_AddChangesOneEntry ==
    [][ret'.op \in AddOps
         => /\ UNCHANGED <<files, dirs>>
            /\ \E secretID \in DOMAIN secrets' :
                  /\ DOMAIN secrets' = DOMAIN secrets \cup {secretID}
                  /\ \A other \in DOMAIN secrets \ {secretID} :
                        secrets'[other] = secrets[other]]_vars
W17_AddChangesOneEntry ==
    /\ ret.op \in AddOps
    /\ Cardinality(DOMAIN secrets) = 2
    /\ \E secretID \in DOMAIN secrets : secrets[secretID].type = "ssh"
    /\ \E p \in DOMAIN files : IsPrefix(secretFolder, p)
    /\ issued # EmptyMap

\* C18: the accesses of concurrent calls to the secret map exclude one
\* another: while a registration call (Add*) is inside its access to the
\* map no other Add* or GetSecret call is inside its own, and the process
\* is never ended by the runtime for a concurrent map access.
C18_MapAccessExclusive ==
    \A t \in Threads : ~Racing(t) /\ pcs[t] # Dead

SameAt(p) ==
    /\ (p \in DOMAIN files') = (p \in DOMAIN files)
    /\ p \in DOMAIN files => files'[p] = files[p]
AllPaths == DOMAIN files \cup DOMAIN files'

\* C19: the secret directory and the stash are separate.  GetSecret(id),
\* whatever the id, writes inside the secret directory only and creates,
\* changes or removes nothing under the stash root; no Add* or GetSecret
\* call makes Load succeed for a handle Save did not issue; Save and Load
\* change no registered secret and no materialized key file.
C19_SecretsAndStashSeparate ==
    [][/\ ret'.op = "GetSecret"
          => \A p \in AllPaths :
                /\ ~SameAt(p) => IsPrefix(secretFolder, p)
                /\ IsPrefix(stashFolder, p) => SameAt(p)
       /\ ret'.op \in AddOps \cup {"GetSecret"}
          => \A stashID \in StashIDs :
                (LoadResult(files', dirs', stashID).err = NoError
                   /\ LoadResult(files, dirs, stashID).err # NoError)
                  => IssuedHandle(stashID)
       /\ ret'.op \in {"Save", "Load"}
          => /\ secrets' = secrets
             /\ \A secretID \in materialized :
                   SameAt(Join(secretFolder, secretID))]_vars

====
